---- MODULE Spec2Model ----
(***************************************************************************)
(* Wiki-link subsystem of Notomattic (src-tauri/src/lib.rs): link parsing, *)
(* note resolution, context extraction, backlink scan and note creation    *)
(* over the two note directories "daily" and "notes".                      *)
(*                                                                         *)
(* A Rust String is modelled as the sequence of its UTF-8 bytes.  An ASCII *)
(* byte is the one-character string of its character ("a", "[", "\n"); a   *)
(* byte of a multi-byte character is the two-digit hexadecimal string of   *)
(* its value ("C3", "A9" are the two bytes of U+00E9).  Offsets are byte   *)
(* offsets counted from 0, as in Rust.                                     *)
(***************************************************************************)
EXTENDS Integers, Sequences, FiniteSets, TLC

\* ------------------------------------------------------------------------
\* Bytes and strings
\* ------------------------------------------------------------------------

UpperCase == <<"A", "B", "C", "D", "E", "F", "G", "H", "I", "J", "K", "L", "M",
               "N", "O", "P", "Q", "R", "S", "T", "U", "V", "W", "X", "Y", "Z">>

LowerCase == <<"a", "b", "c", "d", "e", "f", "g", "h", "i", "j", "k", "l", "m",
               "n", "o", "p", "q", "r", "s", "t", "u", "v", "w", "x", "y", "z">>

Digits == {"0", "1", "2", "3", "4", "5", "6", "7", "8", "9"}

\* The bytes of U+00E9 (a lowercase letter, two bytes in UTF-8).
EAcute == <<"C3", "A9">>

\* UTF-8 continuation bytes (10xxxxxx) of the modelled alphabet.
ContinuationBytes == {"A9"}

\* Bytes of the modelled alphabet that belong to an alphanumeric character.
AlnumBytes ==
    {UpperCase[i] : i \in DOMAIN UpperCase} \cup {LowerCase[i] : i \in DOMAIN LowerCase}
        \cup Digits \cup {"C3", "A9"}

\* char::is_whitespace on the modelled alphabet.
WhiteBytes == {" ", "\n", "\t"}

MdSuffix == <<".", "m", "d">>

SetMin(S) == CHOOSE x \in S : \A y \in S : x <= y

\* &s[from..to] with 0-based byte offsets, from <= to <= s.len().
Slice(s, from, to) == SubSeq(s, from + 1, to)

StartsWith(s, p) == Len(p) <= Len(s) /\ SubSeq(s, 1, Len(p)) = p

EndsWith(s, p) == Len(p) <= Len(s) /\ SubSeq(s, Len(s) - Len(p) + 1, Len(s)) = p

\* str::find: the byte offset of the first occurrence of needle, -1 for None.
Find(hay, needle) ==
    LET n == Len(needle)
        hits == {i \in 0..(Len(hay) - n) : SubSeq(hay, i + 1, i + n) = needle}
    IN  IF hits = {} THEN -1 ELSE SetMin(hits)

\* str::is_char_boundary.
IsCharBoundary(s, i) ==
    \/ i = 0
    \/ i = Len(s)
    \/ i > 0 /\ i < Len(s) /\ s[i + 1] \notin ContinuationBytes

\* char::to_lowercase, byte by byte (the alphabet's only non-ASCII letter is
\* already lowercase).
LowerByte(b) ==
    IF \E i \in DOMAIN UpperCase : UpperCase[i] = b
    THEN LowerCase[CHOOSE i \in DOMAIN UpperCase : UpperCase[i] = b]
    ELSE b

to_lowercase(s) == [i \in DOMAIN s |-> LowerByte(s[i])]

\* str::trim: strip leading and trailing whitespace.
trim(s) ==
    LET keep == {i \in DOMAIN s : s[i] \notin WhiteBytes}
    IN  IF keep = {} THEN <<>>
        ELSE SubSeq(s, SetMin(keep), CHOOSE j \in keep : \A k \in keep : k <= j)

RECURSIVE FilterBytes(_, _)
\* The bytes of s that are in Keep, in order.
FilterBytes(s, Keep) ==
    IF s = <<>> THEN <<>>
    ELSE (IF Head(s) \in Keep THEN <<Head(s)>> ELSE <<>>) \o FilterBytes(Tail(s), Keep)

RECURSIVE trim_end_matches(_, _)
\* str::trim_end_matches: strips the suffix as often as it repeats.
trim_end_matches(s, suf) ==
    IF suf # <<>> /\ EndsWith(s, suf)
    THEN trim_end_matches(SubSeq(s, 1, Len(s) - Len(suf)), suf)
    ELSE s

RECURSIVE trim_start_matches(_, _)
\* str::trim_start_matches: strips the prefix as often as it repeats.
trim_start_matches(s, pre) ==
    IF pre # <<>> /\ StartsWith(s, pre)
    THEN trim_start_matches(SubSeq(s, Len(pre) + 1, Len(s)), pre)
    ELSE s

RECURSIVE lines(_)
\* str::lines on text without carriage returns: the pieces between "\n".
lines(s) ==
    IF s = <<>> THEN <<>>
    ELSE LET nl == Find(s, <<"\n">>)
         IN  IF nl = -1 THEN <<s>>
             ELSE <<Slice(s, 0, nl)>> \o lines(Slice(s, nl + 1, Len(s)))

\* ------------------------------------------------------------------------
\* Link Parser: WIKI_LINK_REGEX  \[\[([^\]|]+)(?:\|([^\]]+))?\]\]
\* ------------------------------------------------------------------------

\* The end offset of the longest run of bytes outside Stop that starts at from.
RunEnd(s, from, Stop) ==
    SetMin({k \in from..Len(s) : k = Len(s) \/ s[k + 1] \in Stop})

\* One attempt of the regex at byte offset i: whether it matches there, where
\* the match ends, and capture groups 1 and 2 (group 2 empty when absent).
\* Both groups are greedy runs that stop only at a byte the next regex item
\* needs, so the longest run is the only one that can lead to a match.
MatchAt(s, i) ==
    LET fail == [ok |-> FALSE, end |-> i, g1 |-> <<>>, g2 |-> <<>>]
    IN  IF ~(i + 2 <= Len(s) /\ Slice(s, i, i + 2) = <<"[", "[">>) THEN fail
        ELSE LET e1 == RunEnd(s, i + 2, {"]", "|"})
             IN  IF e1 = i + 2 THEN fail
                 ELSE IF e1 + 2 <= Len(s) /\ Slice(s, e1, e1 + 2) = <<"]", "]">>
                 THEN [ok |-> TRUE, end |-> e1 + 2, g1 |-> Slice(s, i + 2, e1), g2 |-> <<>>]
                 ELSE IF e1 < Len(s) /\ s[e1 + 1] = "|"
                 THEN LET e2 == RunEnd(s, e1 + 1, {"]"})
                      IN  IF e2 > e1 + 1 /\ e2 + 2 <= Len(s)
                              /\ Slice(s, e2, e2 + 2) = <<"]", "]">>
                          THEN [ok |-> TRUE, end |-> e2 + 2,
                                g1 |-> Slice(s, i + 2, e1), g2 |-> Slice(s, e1 + 1, e2)]
                          ELSE fail
                 ELSE fail

RECURSIVE ParseFromDisplay(_, _)
\* ParseFrom that keeps capture group 1 (the display text) of every match.
ParseFromDisplay(s, i) ==
    IF i + 2 > Len(s) THEN <<>>
    ELSE LET m == MatchAt(s, i)
         IN  IF m.ok
             THEN (IF m.g1 # <<>> THEN <<m.g1>> ELSE <<>>) \o ParseFromDisplay(s, m.end)
             ELSE ParseFromDisplay(s, i + 1)

RECURSIVE ParseFrom(_, _)
\* captures_iter from offset i: leftmost match first, then on from its end.
ParseFrom(s, i) ==
    IF i + 2 > Len(s) THEN <<>>
    ELSE LET m == MatchAt(s, i)
         IN  IF m.ok
             THEN LET target == IF m.g2 # <<>> THEN m.g2 ELSE m.g1
                  IN  (IF target # <<>> THEN <<target>> ELSE <<>>) \o ParseFrom(s, m.end)
             ELSE ParseFrom(s, i + 1)

parse_wiki_links(content) == ParseFrom(content, 0)

\* ------------------------------------------------------------------------
\* Note Resolver
\* ------------------------------------------------------------------------

\* replace(' ', "-").
SpacesToDashes(s) == [i \in DOMAIN s |-> IF s[i] = " " THEN "-" ELSE s[i]]

note_name_to_filename(note_name) ==
    LET slug == FilterBytes(SpacesToDashes(trim(to_lowercase(note_name))),
                            AlnumBytes \cup {"-"})
    IN  slug \o MdSuffix

\* The daily candidate of note_exists.
DailyFilename(note_name) ==
    IF EndsWith(note_name, MdSuffix) THEN note_name ELSE note_name \o MdSuffix

\* ------------------------------------------------------------------------
\* Context Extractor
\* ------------------------------------------------------------------------

\* The number of bytes of context kept on each side of a link.
ContextRadius == 50

Ellipsis == <<".", ".", ".">>

Min2(a, b) == IF a <= b THEN a ELSE b

\* usize::saturating_sub.
saturating_sub(a, b) == IF a >= b THEN a - b ELSE 0

\* Excerpt that marks both ends as truncated whether or not they are.
ExcerptAlwaysEllipsis(content, pos, search) ==
    LET start == saturating_sub(pos, ContextRadius)
        end == Min2(pos + Len(search) + ContextRadius, Len(content))
    IN  [panicked |-> FALSE,
         text |-> Ellipsis \o Slice(content, start, end) \o Ellipsis]

\* The body of get_link_context's loop for a pattern found at byte offset pos.
\* Slicing a str at an offset inside a multi-byte character panics.
Excerpt(content, pos, search) ==
    LET start == saturating_sub(pos, ContextRadius)
        end == Min2(pos + Len(search) + ContextRadius, Len(content))
        actual_end ==
            IF EndsWith(search, <<"|">>)
            THEN LET p == Find(Slice(content, pos, Len(content)), <<"]", "]">>)
                 IN  IF p # -1
                     THEN Min2(pos + p + 2 + ContextRadius, Len(content))
                     ELSE end
            ELSE end
    IN  IF ~IsCharBoundary(content, start) \/ ~IsCharBoundary(content, actual_end)
        THEN [panicked |-> TRUE, text |-> <<>>]
        ELSE [panicked |-> FALSE,
              text |-> (IF start > 0 THEN Ellipsis ELSE <<>>)
                        \o Slice(content, start, actual_end)
                        \o (IF actual_end < Len(content) THEN Ellipsis ELSE <<>>)]

\* The two literal forms get_link_context searches for, in its order.
PlainPattern(link_text) == <<"[", "[">> \o link_text \o <<"]", "]">>

PipePattern(link_text) == <<"[", "[">> \o link_text \o <<"|">>

get_link_context(content, link_text) ==
    LET pos1 == Find(content, PlainPattern(link_text))
        pos2 == Find(content, PipePattern(link_text))
    IN  IF pos1 # -1 THEN Excerpt(content, pos1, PlainPattern(link_text))
        ELSE IF pos2 # -1 THEN Excerpt(content, pos2, PipePattern(link_text))
        ELSE [panicked |-> FALSE, text |-> <<>>]

\* ------------------------------------------------------------------------
\* The note store: the directories Notomattic/daily and Notomattic/notes
\* ------------------------------------------------------------------------

Daily == "daily"

Standalone == "notes"

\* The order in which get_backlinks visits the directories.
ScanDirs == <<Daily, Standalone>>

Dirs == {Daily, Standalone}

VARIABLES
    dirState,    \* per directory: "missing", "present", or "denied" (exists, read_dir fails)
    files,       \* per directory: the regular files in it, file name |-> content
    unreadable,  \* the <<directory, file name>> whose read_to_string fails
    last,        \* the last command run: its arguments and what it returned
    ops,         \* the number of commands that changed the store so far
    ctx,         \* a call of get_link_context on its own: arguments and result
    created      \* history: the [ref, f] of every create_note_from_link(ref) that
                 \* returned f, since the last removal or renaming of a note

vars == <<dirState, files, unreadable, last, ops, ctx, created>>

\* Path::exists of a file of a directory.
FileExists(dir, name) == name \in DOMAIN files[dir]

\* Path::extension() == Some("md"): the name ends in ".md" and the dot is not
\* its first byte (".md" itself has no extension).
HasMdExtension(name) == Len(name) > Len(MdSuffix) /\ EndsWith(name, MdSuffix)

\* note_exists with the two lookups swapped: the daily directory wins.
NoteExistsDailyFirst(note_name) ==
    LET filename == note_name_to_filename(note_name)
        daily_filename == DailyFilename(note_name)
    IN  IF FileExists(Daily, daily_filename)
        THEN [ok |-> TRUE, exists |-> TRUE, target |-> daily_filename]
        ELSE IF FileExists(Standalone, filename)
        THEN [ok |-> TRUE, exists |-> TRUE, target |-> filename]
        ELSE [ok |-> TRUE, exists |-> FALSE, target |-> filename]

\* note_exists that forgets the daily directory.
NoteExistsStandaloneOnly(note_name) ==
    LET filename == note_name_to_filename(note_name)
    IN  IF FileExists(Standalone, filename)
        THEN [ok |-> TRUE, exists |-> TRUE, target |-> filename]
        ELSE [ok |-> TRUE, exists |-> FALSE, target |-> filename]

note_exists(note_name) ==
    LET filename == note_name_to_filename(note_name)
        daily_filename == DailyFilename(note_name)
    IN  IF FileExists(Standalone, filename)
        THEN [ok |-> TRUE, exists |-> TRUE, target |-> filename]
        ELSE IF FileExists(Daily, daily_filename)
        THEN [ok |-> TRUE, exists |-> TRUE, target |-> daily_filename]
        ELSE [ok |-> TRUE, exists |-> FALSE, target |-> filename]

\* ------------------------------------------------------------------------
\* scan_note_links
\* ------------------------------------------------------------------------

RECURSIVE ResolveAll(_)
\* The loop of scan_note_links: one WikiLink per parsed reference, in order.
ResolveAll(link_names) ==
    IF link_names = <<>> THEN <<>>
    ELSE LET name == Head(link_names)
             r == note_exists(name)
         IN  <<[text |-> name, target |-> r.target, exists |-> r.exists]>>
                 \o ResolveAll(Tail(link_names))

scan_note_links(content) == ResolveAll(parse_wiki_links(content))

\* ------------------------------------------------------------------------
\* Backlink Indexer
\* ------------------------------------------------------------------------

HeadingMarker == <<"#", " ">>

\* The title of get_backlinks: the first line that starts with "# ", markers
\* stripped, or the file name.
TitleOf(content, from_filename) ==
    LET ls == lines(content)
        hs == {i \in DOMAIN ls : StartsWith(ls[i], HeadingMarker)}
    IN  IF hs = {} THEN from_filename
        ELSE trim_start_matches(ls[SetMin(hs)], HeadingMarker)

\* The note name get_backlinks matches raw references against.
NoteNameOf(filename) == trim_end_matches(filename, MdSuffix)

\* The match test of get_backlinks for one parsed reference.
\* note_exists(&link).unwrap_or((false, String::new())), second component.
TargetOrEmpty(r) == IF r.ok THEN r.target ELSE <<>>

LinkMatches(link, filename) ==
    TargetOrEmpty(note_exists(link)) = filename \/ link = NoteNameOf(filename)

\* The BacklinkInfo get_backlinks pushes once the context is extracted; a
\* panic of get_link_context leaves none.
RecordOf(context, content, from_filename) ==
    IF context.panicked THEN [panicked |-> TRUE, found |-> <<>>]
    ELSE [panicked |-> FALSE,
          found |-> <<[from_note |-> from_filename,
                       from_title |-> TitleOf(content, from_filename),
                       context |-> context.text]>>]

\* The outcome of two pieces of the inner loop, one after the other.
Both(first, rest) ==
    IF first.panicked \/ rest.panicked THEN [panicked |-> TRUE, found |-> <<>>]
    ELSE [panicked |-> FALSE, found |-> first.found \o rest.found]

RECURSIVE ScanLinksNoBreak(_, _, _, _)
\* ScanLinks without the break: a record for every reference that matches.
ScanLinksNoBreak(links, content, from_filename, filename) ==
    IF links = <<>> THEN [panicked |-> FALSE, found |-> <<>>]
    ELSE IF LinkMatches(Head(links), filename)
    THEN Both(RecordOf(get_link_context(content, Head(links)), content, from_filename),
              ScanLinksNoBreak(Tail(links), content, from_filename, filename))
    ELSE ScanLinksNoBreak(Tail(links), content, from_filename, filename)

RECURSIVE ScanLinks(_, _, _, _)
\* The inner loop of get_backlinks over one file's references: the record of
\* the first reference that matches, then break.
ScanLinks(links, content, from_filename, filename) ==
    IF links = <<>> THEN [panicked |-> FALSE, found |-> <<>>]
    ELSE IF LinkMatches(Head(links), filename)
    THEN RecordOf(get_link_context(content, Head(links)), content, from_filename)
    ELSE ScanLinks(Tail(links), content, from_filename, filename)

\* What get_backlinks does with the outcome of the inner loop for one file.
EntryOutcome(r) ==
    IF r.panicked THEN [status |-> "panic", found |-> <<>>]
    ELSE [status |-> "ok", found |-> r.found]

\* The part of get_backlinks' loop body that follows read_to_string.
ScanContent(content, from_filename, filename) ==
    EntryOutcome(ScanLinks(parse_wiki_links(content), content, from_filename, filename))

\* ScanEntry without the test that skips the target's own file.
ScanEntryNoSelfCheck(dir, from_filename, filename) ==
    IF ~HasMdExtension(from_filename)
    THEN [status |-> "skip", found |-> <<>>]
    ELSE IF <<dir, from_filename>> \in unreadable
    THEN [status |-> "err", found |-> <<>>]
    ELSE ScanContent(files[dir][from_filename], from_filename, filename)

\* ScanEntry that passes over a file it cannot read instead of returning.
ScanEntrySkipUnreadable(dir, from_filename, filename) ==
    IF ~HasMdExtension(from_filename)
    THEN [status |-> "skip", found |-> <<>>]
    ELSE IF from_filename = filename
    THEN [status |-> "skip", found |-> <<>>]
    ELSE IF <<dir, from_filename>> \in unreadable
    THEN [status |-> "skip", found |-> <<>>]
    ELSE ScanContent(files[dir][from_filename], from_filename, filename)

\* The body of get_backlinks' loop over directory entries, for one entry:
\* what happens ("skip", "ok", "err", "panic") and the record it pushes.
ScanEntry(dir, from_filename, filename) ==
    IF ~HasMdExtension(from_filename)
    THEN [status |-> "skip", found |-> <<>>]
    ELSE IF from_filename = filename
    THEN [status |-> "skip", found |-> <<>>]
    ELSE IF <<dir, from_filename>> \in unreadable
    THEN [status |-> "err", found |-> <<>>]
    ELSE ScanContent(files[dir][from_filename], from_filename, filename)

RECURSIVE ScanEntries(_, _, _, _)
RECURSIVE AfterEntry(_, _, _, _, _)
\* The loop of get_backlinks over the entries of one directory, in the order
\* read_dir lists them.
ScanEntries(dir, entries, filename, backlinks) ==
    IF entries = <<>> THEN [status |-> "ok", error |-> "", backlinks |-> backlinks]
    ELSE AfterEntry(ScanEntry(dir, Head(entries), filename),
                    dir, entries, filename, backlinks)

\* What follows entry e of the loop: a failed read returns at once and drops
\* the records, a panic ends the call, else the loop goes on.
AfterEntry(e, dir, entries, filename, backlinks) ==
    IF e.status = "err"
    THEN [status |-> "err", error |-> "Failed to read file", backlinks |-> <<>>]
    ELSE IF e.status = "panic"
    THEN [status |-> "panic", error |-> "", backlinks |-> <<>>]
    ELSE ScanEntries(dir, Tail(entries), filename, backlinks \o e.found)

RECURSIVE ScanDirectories(_, _, _, _)
RECURSIVE AfterDirectory(_, _, _, _)
\* The outer loop of get_backlinks over [daily_dir, standalone_dir].
ScanDirectories(dirs, order, filename, backlinks) ==
    IF dirs = <<>> THEN [status |-> "ok", error |-> "", backlinks |-> backlinks]
    ELSE IF dirState[Head(dirs)] = "missing"
    THEN ScanDirectories(Tail(dirs), order, filename, backlinks)
    ELSE IF dirState[Head(dirs)] = "denied"
    THEN [status |-> "err", error |-> "Failed to read directory", backlinks |-> <<>>]
    ELSE AfterDirectory(ScanEntries(Head(dirs), order[Head(dirs)], filename, backlinks),
                        dirs, order, filename)

\* What follows the scan r of one directory: its error or panic ends the call,
\* else the next directory is scanned.
AfterDirectory(r, dirs, order, filename) ==
    IF r.status # "ok" THEN r
    ELSE ScanDirectories(Tail(dirs), order, filename, r.backlinks)

\* order[dir] is the order in which read_dir lists the files of dir.
get_backlinks(filename, order) == ScanDirectories(ScanDirs, order, filename, <<>>)

\* ------------------------------------------------------------------------
\* Inputs of the commands and initial contents of the store
\* ------------------------------------------------------------------------

\* The number of store-changing commands in one run.
MaxOps == 1

RefLowerA == <<"a">>

RefUpperA == <<"A">>

RefAMd == <<"a", ".", "m", "d">>

RefDailyLog == <<"D", "a", "i", "l", "y", " ", "L", "o", "g">>

NameA == <<"a", ".", "m", "d">>

NameB == <<"b", ".", "m", "d">>

NameUpperA == <<"A", ".", "m", "d">>

NameAMdMd == <<"a", ".", "m", "d", ".", "m", "d">>

NameDailyLog == <<"d", "a", "i", "l", "y", "-", "l", "o", "g", ".", "m", "d">>

NameProjectPlan == <<"p", "r", "o", "j", "e", "c", "t", "-", "p", "l", "a", "n", ".", "m", "d">>

NameNewYear == <<"2", "0", "2", "4", "-", "0", "1", "-", "0", "1", ".", "m", "d">>

\* "[[a]]"
TextLinkA == <<"[", "[", "a", "]", "]">>

\* "[[A]] [[b|a]]"
TextTwoLinks == <<"[", "[", "A", "]", "]", " ", "[", "[", "b", "|", "a", "]", "]">>

\* "# T\n[[Daily Log]]"
TextTitled == <<"#", " ", "T", "\n", "[", "[", "D", "a", "i", "l", "y", " ", "L", "o", "g", "]", "]">>

\* "# Project Plan\nSee [[Daily Log]] for details."
TextProjectPlan ==
    <<"#", " ", "P", "r", "o", "j", "e", "c", "t", " ", "P", "l", "a", "n", "\n",
      "S", "e", "e", " ", "[", "[", "D", "a", "i", "l", "y", " ", "L", "o", "g", "]", "]",
      " ", "f", "o", "r", " ", "d", "e", "t", "a", "i", "l", "s", ".">>

\* n bytes of plain ASCII text.
Fill(n) == [i \in 1..n |-> "x"]

\* U+00E9, then ContextRadius - 1 ASCII bytes, then "[[a]]": the link starts at
\* byte offset ContextRadius + 1.
TextAccented == EAcute \o Fill(ContextRadius - 1) \o TextLinkA

Refs == {RefLowerA, RefUpperA, RefAMd, RefDailyLog}

Texts == {TextLinkA, TextTwoLinks, TextTitled}

WriteNames == {NameA, NameB}

Targets == {NameA, NameUpperA, NameAMdMd, NameDailyLog}

NoFiles == [n \in {} |-> <<>>]

\* Nothing on disk yet: neither directory exists.
EmptyStore ==
    [dirState |-> [d \in Dirs |-> "missing"],
     files |-> [d \in Dirs |-> NoFiles]]

\* notes/project-plan.md and an empty daily/2024-01-01.md.
ScenarioStore ==
    [dirState |-> [d \in Dirs |-> "present"],
     files |-> [d \in Dirs |->
                  IF d = Standalone
                  THEN [n \in {NameProjectPlan} |-> TextProjectPlan]
                  ELSE [n \in {NameNewYear} |-> <<>>]]]

\* daily/b.md holds a link more than ContextRadius bytes after an accented letter.
AccentedStore ==
    [dirState |-> [d \in Dirs |-> "present"],
     files |-> [d \in Dirs |->
                  IF d = Daily THEN [n \in {NameB} |-> TextAccented] ELSE NoFiles]]

\* A note a.md in each directory.
PairStore ==
    [dirState |-> [d \in Dirs |-> "present"],
     files |-> [d \in Dirs |->
                  IF d = Daily
                  THEN [n \in {NameA} |-> TextTwoLinks]
                  ELSE [n \in {NameA} |-> TextLinkA]]]

InitialStores == {EmptyStore, ScenarioStore, AccentedStore, PairStore}

\* ------------------------------------------------------------------------
\* The commands
\* ------------------------------------------------------------------------

NoOrder == [d \in Dirs |-> <<>>]

\* What a command leaves in last; each command fills in the fields it returns.
Returned(op, arg) ==
    [op |-> op, arg |-> arg, dir |-> "", order |-> NoOrder, status |-> "ok",
     error |-> "", exists |-> FALSE, target |-> <<>>, links |-> <<>>,
     backlinks |-> <<>>]

RECURSIVE Listings(_)
\* The sequences that list every element of S once.
Listings(S) ==
    IF S = {} THEN {<<>>}
    ELSE UNION {{<<x>> \o l : l \in Listings(S \ {x})} : x \in S}

\* The listing orders read_dir can produce for the current store.
Orders ==
    {[d \in Dirs |-> IF d = Daily THEN a ELSE b] :
        a \in Listings(DOMAIN files[Daily]), b \in Listings(DOMAIN files[Standalone])}

WithFile(f, name, content) ==
    [n \in DOMAIN f \cup {name} |-> IF n = name THEN content ELSE f[n]]

WithoutFile(f, name) == [n \in DOMAIN f \ {name} |-> f[n]]

\* ctx when get_link_context is not called on its own.
NoCall == [content |-> <<>>, link_text |-> <<>>, done |-> FALSE,
           result |-> [panicked |-> FALSE, text |-> <<>>]]

Init ==
    /\ \E s \in InitialStores : dirState = s.dirState /\ files = s.files
    /\ unreadable = {}
    /\ last = Returned("none", <<>>)
    /\ ops = 0
    /\ created = {}
    /\ ctx = NoCall

\* note_exists(note_name), the Note Resolver.
\* What note_exists leaves in last when it returns r.
ResolutionReturned(note_name, r) ==
    [Returned("note_exists", note_name) EXCEPT
        !.status = IF r.ok THEN "ok" ELSE "err",
        !.exists = r.exists, !.target = r.target]

NoteExists(note_name) ==
    /\ last' = ResolutionReturned(note_name, note_exists(note_name))
    /\ UNCHANGED <<dirState, files, unreadable, ops, ctx, created>>

RECURSIVE MissingTargets(_)
\* The targets of the links of a scan result that resolve to no note.
MissingTargets(links) ==
    IF links = <<>> THEN {}
    ELSE (IF Head(links).exists THEN {} ELSE {Head(links).target})
             \cup MissingTargets(Tail(links))

\* ScanNoteLinks that creates an empty standalone note for every link it
\* finds broken.
ScanNoteLinksCreating(content) ==
    /\ last' = [Returned("scan_note_links", content) EXCEPT
                   !.links = scan_note_links(content)]
    /\ files' = [files EXCEPT
                    ![Standalone] =
                        [n \in DOMAIN @ \cup MissingTargets(scan_note_links(content)) |->
                            IF n \in DOMAIN @ THEN @[n] ELSE <<>>]]
    /\ dirState' = [dirState EXCEPT
                       ![Standalone] = IF @ = "missing" THEN "present" ELSE @]
    /\ UNCHANGED <<unreadable, ops, ctx, created>>

ScanNoteLinks(content) ==
    /\ last' = [Returned("scan_note_links", content) EXCEPT
                   !.links = scan_note_links(content)]
    /\ UNCHANGED <<dirState, files, unreadable, ops, ctx, created>>

\* What get_backlinks leaves in last when it ends as r.
BacklinksReturned(filename, order, r) ==
    [Returned("get_backlinks", filename) EXCEPT
        !.order = order, !.status = r.status, !.error = r.error,
        !.backlinks = r.backlinks]

GetBacklinks(filename, order) ==
    /\ last' = BacklinksReturned(filename, order, get_backlinks(filename, order))
    /\ UNCHANGED <<dirState, files, unreadable, ops, ctx, created>>

\* The content create_note_from_link writes: format!("# {}\n\n", note_name).
InitialContent(note_name) == HeadingMarker \o note_name \o <<"\n", "\n">>

\* create_note_from_link without the existence check: it writes over the note.
CreateNoteFromLinkOverwrite(note_name) ==
    LET filename == note_name_to_filename(note_name)
    IN  /\ ops < MaxOps
        /\ ops' = ops + 1
        /\ UNCHANGED ctx
        /\ dirState' = [dirState EXCEPT
                           ![Standalone] = IF @ = "missing" THEN "present" ELSE @]
        /\ files' = [files EXCEPT
                        ![Standalone] = WithFile(@, filename, InitialContent(note_name))]
        /\ last' = [Returned("create_note_from_link", note_name) EXCEPT
                       !.target = filename]
        /\ created' = created \cup {[ref |-> note_name, f |-> filename]}
        /\ UNCHANGED unreadable

\* create_note_from_link that checks and writes notes/<note_name>.md, the
\* name as given, and returns the slug file name.
CreateNoteFromLinkUnslugged(note_name) ==
    LET filename == note_name_to_filename(note_name)
        raw == note_name \o MdSuffix
    IN  /\ UNCHANGED ctx
        /\ IF FileExists(Standalone, raw)
           THEN /\ last' = [Returned("create_note_from_link", note_name) EXCEPT
                               !.status = "err", !.error = "already exists"]
                /\ UNCHANGED <<dirState, files, unreadable, ops, created>>
           ELSE /\ ops < MaxOps
                /\ ops' = ops + 1
                /\ dirState' = [dirState EXCEPT
                                   ![Standalone] = IF @ = "missing" THEN "present" ELSE @]
                /\ files' = [files EXCEPT
                                ![Standalone] =
                                    WithFile(@, raw, InitialContent(note_name))]
                /\ last' = [Returned("create_note_from_link", note_name) EXCEPT
                               !.target = filename]
                /\ created' = created \cup {[ref |-> note_name, f |-> filename]}
                /\ UNCHANGED unreadable

\* create_note_from_link.  A call that finds the note there changes nothing
\* (create_dir_all finds the directory of that note), so ops does not count it.
CreateNoteFromLink(note_name) ==
    LET filename == note_name_to_filename(note_name)
    IN  /\ UNCHANGED ctx
        /\ IF FileExists(Standalone, filename)
           THEN /\ last' = [Returned("create_note_from_link", note_name) EXCEPT
                               !.status = "err", !.error = "already exists"]
                /\ UNCHANGED <<dirState, files, unreadable, ops, created>>
           ELSE /\ ops < MaxOps
                /\ ops' = ops + 1
                \* create_dir_all(notes)
                /\ dirState' = [dirState EXCEPT
                                   ![Standalone] = IF @ = "missing" THEN "present" ELSE @]
                /\ files' = [files EXCEPT
                                ![Standalone] =
                                    WithFile(@, filename, InitialContent(note_name))]
                /\ last' = [Returned("create_note_from_link", note_name) EXCEPT
                               !.target = filename]
                /\ created' = created \cup {[ref |-> note_name, f |-> filename]}
                /\ UNCHANGED unreadable

\* write_note: fs::write fails when the directory does not exist.
WriteNote(filename, content, dir) ==
    /\ ops < MaxOps
    /\ ops' = ops + 1
    /\ UNCHANGED <<ctx, created>>
    /\ IF dirState[dir] = "missing"
       THEN /\ last' = [Returned("write_note", filename) EXCEPT
                           !.dir = dir, !.status = "err", !.error = "write failed"]
            /\ UNCHANGED <<files, unreadable>>
       ELSE /\ files' = [files EXCEPT ![dir] = WithFile(@, filename, content)]
            /\ unreadable' = unreadable \ {<<dir, filename>>}
            /\ last' = [Returned("write_note", filename) EXCEPT !.dir = dir]
    /\ UNCHANGED dirState

DeleteNote(filename, dir) ==
    /\ ops < MaxOps
    /\ ops' = ops + 1
    /\ UNCHANGED ctx
    /\ files' = [files EXCEPT ![dir] = WithoutFile(@, filename)]
    /\ unreadable' = unreadable \ {<<dir, filename>>}
    /\ created' = IF FileExists(dir, filename) THEN {} ELSE created
    /\ last' = [Returned("delete_note", filename) EXCEPT !.dir = dir]
    /\ UNCHANGED dirState

\* rename_note: refused when the old name is not there or the new one is.
RenameNote(old_filename, new_filename, dir) ==
    /\ ops < MaxOps
    /\ ops' = ops + 1
    /\ UNCHANGED <<ctx, dirState>>
    /\ IF ~FileExists(dir, old_filename)
       THEN /\ last' = [Returned("rename_note", old_filename) EXCEPT
                           !.dir = dir, !.target = new_filename,
                           !.status = "err", !.error = "Note not found"]
            /\ UNCHANGED <<files, unreadable, created>>
       ELSE IF FileExists(dir, new_filename)
       THEN /\ last' = [Returned("rename_note", old_filename) EXCEPT
                           !.dir = dir, !.target = new_filename,
                           !.status = "err", !.error = "already exists"]
            /\ UNCHANGED <<files, unreadable, created>>
       ELSE /\ files' = [files EXCEPT
                            ![dir] = WithFile(WithoutFile(@, old_filename),
                                              new_filename, @[old_filename])]
            /\ unreadable' = (unreadable \ {<<dir, old_filename>>})
                                 \cup (IF <<dir, old_filename>> \in unreadable
                                       THEN {<<dir, new_filename>>} ELSE {})
            /\ created' = {}
            /\ last' = [Returned("rename_note", old_filename) EXCEPT
                           !.dir = dir, !.target = new_filename]

\* The files clear_all_notes leaves in a directory: it removes the .md files
\* of a directory it can list.
AfterClear(dir) ==
    IF dirState[dir] = "present"
    THEN [n \in {m \in DOMAIN files[dir] : ~HasMdExtension(m)} |-> files[dir][n]]
    ELSE files[dir]

ClearAllNotes ==
    /\ ops < MaxOps
    /\ ops' = ops + 1
    /\ UNCHANGED <<ctx, dirState>>
    /\ files' = [d \in Dirs |-> AfterClear(d)]
    /\ unreadable' = {u \in unreadable : u[2] \in DOMAIN AfterClear(u[1])}
    /\ created' = IF \A d \in Dirs : AfterClear(d) = files[d] THEN created ELSE {}
    /\ last' = Returned("clear_all_notes", <<>>)

EnsureDirectories ==
    /\ ops < MaxOps
    /\ ops' = ops + 1
    /\ UNCHANGED <<ctx, created>>
    /\ dirState' = [d \in Dirs |-> IF dirState[d] = "missing" THEN "present" ELSE dirState[d]]
    /\ last' = Returned("ensure_directories", <<>>)
    /\ UNCHANGED <<files, unreadable>>

\* The environment: a directory loses its read permission, so read_dir fails
\* on it while its files still exist.
DenyDirectory(dir) ==
    /\ ops < MaxOps
    /\ ops' = ops + 1
    /\ UNCHANGED <<ctx, created>>
    /\ dirState[dir] = "present"
    /\ dirState' = [dirState EXCEPT ![dir] = "denied"]
    /\ last' = [Returned("deny_directory", <<>>) EXCEPT !.dir = dir]
    /\ UNCHANGED <<files, unreadable>>

\* The environment: a note stops being readable as text (permissions, or bytes
\* that are not UTF-8), so read_to_string fails on it.
SpoilFile(filename, dir) ==
    /\ ops < MaxOps
    /\ ops' = ops + 1
    /\ UNCHANGED <<ctx, created>>
    /\ FileExists(dir, filename)
    /\ unreadable' = unreadable \cup {<<dir, filename>>}
    /\ last' = [Returned("spoil_file", filename) EXCEPT !.dir = dir]
    /\ UNCHANGED <<dirState, files>>

Next ==
    \/ \E r \in Refs : NoteExists(r)
    \/ \E c \in Texts : ScanNoteLinks(c)
    \/ \E t \in Targets : \E o \in Orders : GetBacklinks(t, o)
    \/ \E r \in Refs : CreateNoteFromLink(r)
    \/ \E n \in WriteNames, c \in Texts, d \in Dirs : WriteNote(n, c, d)
    \/ \E n \in WriteNames, d \in Dirs : DeleteNote(n, d)
    \/ \E o, n \in WriteNames, d \in Dirs : RenameNote(o, n, d)
    \/ ClearAllNotes
    \/ EnsureDirectories
    \/ \E d \in Dirs : DenyDirectory(d)
    \/ \E d \in Dirs : \E n \in DOMAIN files[d] : SpoilFile(n, d)

Spec == Init /\ [][Next]_vars

\* ------------------------------------------------------------------------
\* get_link_context on its own, over texts built around one link to "a"
\* ------------------------------------------------------------------------

\* How far the lengths of the text before and after the link range around 0
\* and around ContextRadius.
PadSlack == 1

Pads == (0..PadSlack) \cup ((ContextRadius - PadSlack)..(ContextRadius + PadSlack))

\* "[[a|b]]"
LinkPiped == <<"[", "[", "a", "|", "b", "]", "]">>

\* "[[a|", a pipe form that is never closed
LinkUnclosed == <<"[", "[", "a", "|">>

\* The forms of the link in the text; the empty one is a text without a link.
CtxLinks == {TextLinkA, LinkPiped, LinkUnclosed, <<>>}

\* Text before the link: p ASCII bytes, or U+00E9 followed by them.
CtxBefore == {Fill(p) : p \in Pads} \cup {EAcute \o Fill(p) : p \in Pads}

\* Text after the link: q ASCII bytes, or those followed by U+00E9.
CtxAfter == {Fill(q) : q \in Pads} \cup {Fill(q) \o EAcute : q \in Pads}

CtxContents == {b \o l \o a : b \in CtxBefore, l \in CtxLinks, a \in CtxAfter}

InitCtx ==
    /\ dirState = EmptyStore.dirState
    /\ files = EmptyStore.files
    /\ unreadable = {}
    /\ last = Returned("none", <<>>)
    /\ ops = 0
    /\ created = {}
    /\ \E c \in CtxContents : ctx = [NoCall EXCEPT !.content = c, !.link_text = RefLowerA]

GetLinkContext ==
    /\ ~ctx.done
    /\ ctx' = [ctx EXCEPT !.done = TRUE,
                          !.result = get_link_context(ctx.content, ctx.link_text)]
    /\ UNCHANGED <<dirState, files, unreadable, last, ops, created>>

NextCtx == GetLinkContext

SpecCtx == InitCtx /\ [][NextCtx]_vars

\* ------------------------------------------------------------------------
\* parse_wiki_links on its own, over texts built from the bytes of the link
\* syntax
\* ------------------------------------------------------------------------

\* The longest text, counted in pieces, that the parser is applied to.
MaxTokens == 6

\* The pieces the texts are built from: "[[", "]]", "|", "a", "]", "[".
ParseTokens == {<<"[", "[">>, <<"]", "]">>, <<"|">>, <<"a">>, <<"]">>, <<"[">>}

RECURSIVE TokenTexts(_)
\* The texts of at most n pieces.
TokenTexts(n) ==
    IF n = 0 THEN {<<>>}
    ELSE LET S == TokenTexts(n - 1)
         IN  S \cup {t \o k : t \in S, k \in ParseTokens}

\* "[[A]] and [[B|c-d]]"
TextExample ==
    <<"[", "[", "A", "]", "]", " ", "a", "n", "d", " ",
      "[", "[", "B", "|", "c", "-", "d", "]", "]">>

\* "[[foo"
TextUnterminated == <<"[", "[", "f", "o", "o">>

\* "[[b]] [[a]] [[b]]"
TextRepeated ==
    <<"[", "[", "b", "]", "]", " ", "[", "[", "a", "]", "]", " ",
      "[", "[", "b", "]", "]">>

ParseTexts ==
    TokenTexts(MaxTokens) \cup {TextExample, TextUnterminated, TextRepeated, TextTwoLinks}

InitParse ==
    /\ dirState = EmptyStore.dirState
    /\ files = EmptyStore.files
    /\ unreadable = {}
    /\ last = Returned("none", <<>>)
    /\ ops = 0
    /\ created = {}
    /\ \E c \in ParseTexts : ctx = [NoCall EXCEPT !.content = c]

ParseWikiLinks ==
    /\ last.op = "none"
    /\ last' = [Returned("parse_wiki_links", ctx.content) EXCEPT
                   !.links = parse_wiki_links(ctx.content)]
    /\ UNCHANGED <<dirState, files, unreadable, ops, ctx, created>>

NextParse == ParseWikiLinks

SpecParse == InitParse /\ [][NextParse]_vars

TypeOK ==
    /\ dirState \in [Dirs -> {"missing", "present", "denied"}]
    /\ \A d \in Dirs : dirState[d] = "missing" => DOMAIN files[d] = {}
    /\ \A u \in unreadable : FileExists(u[1], u[2])
    /\ ops \in 0..MaxOps
    /\ \A c \in created : c.ref \in Refs

\* ------------------------------------------------------------------------
\* Properties of the Note Resolver
\* ------------------------------------------------------------------------

\* The store as it is when the last command returns: the commands that read
\* leave it alone, so a result in last is judged against the current store.
InStandalone(name) == name \in DOMAIN files[Standalone]

InDaily(name) == name \in DOMAIN files[Daily]

\* The daily candidate of a reference: the reference itself when it ends in
\* ".md", else the reference with ".md" appended.
DailyCandidate(r) == IF EndsWith(r, MdSuffix) THEN r ELSE r \o MdSuffix

\* C1: note_exists is first-match-wins and never fails: when the standalone
\* directory holds slug(r).md the answer is (true, slug(r).md), whatever the
\* daily directory holds; otherwise when the daily directory holds the daily
\* candidate the answer is (true, daily candidate); otherwise it is
\* (false, slug(r).md).
C1_ResolveFirstMatchWins ==
    last.op = "note_exists" =>
        LET r == last.arg
            slugName == note_name_to_filename(r)
        IN  /\ last.status = "ok"
            /\ IF InStandalone(slugName)
               THEN last.exists /\ last.target = slugName
               ELSE IF InDaily(DailyCandidate(r))
               THEN last.exists /\ last.target = DailyCandidate(r)
               ELSE ~last.exists /\ last.target = slugName

\* A resolution where both directories hold a candidate and the candidates
\* differ, so that precedence decides the answer.
C1_Witness ==
    /\ last.op = "note_exists"
    /\ InStandalone(note_name_to_filename(last.arg))
    /\ InDaily(DailyCandidate(last.arg))
    /\ DailyCandidate(last.arg) # note_name_to_filename(last.arg)
    /\ last.exists
    /\ last.target = note_name_to_filename(last.arg)

\* C2 as stated: every WikiLink of scan_note_links has exists true exactly
\* when a file named by its target is in the standalone or the daily directory.
C2_ExistsIffTargetOnDisk ==
    last.op = "scan_note_links" =>
        \A i \in DOMAIN last.links :
            last.links[i].exists <=>
                (InStandalone(last.links[i].target) \/ InDaily(last.links[i].target))

\* C2, amended: every WikiLink of scan_note_links has exists true exactly when
\* the standalone directory holds slug(text).md or the daily directory holds
\* the daily candidate of text; when exists is true the file named by target
\* is on disk, and when exists is false no file named by target is in the
\* standalone directory (the daily directory may hold one).
C2_ExistsIffCandidateOnDisk ==
    last.op = "scan_note_links" =>
        \A i \in DOMAIN last.links :
            LET l == last.links[i]
            IN  /\ l.exists <=> (\/ InStandalone(note_name_to_filename(l.text))
                                 \/ InDaily(DailyCandidate(l.text)))
                /\ l.exists => (InStandalone(l.target) \/ InDaily(l.target))
                /\ ~l.exists => ~InStandalone(l.target)

\* A scan that returns a link found through the daily directory and a link
\* reported absent whose target names a file of the daily directory.
C2_Witness ==
    /\ last.op = "scan_note_links"
    /\ \E i, j \in DOMAIN last.links :
           /\ last.links[i].exists
           /\ InDaily(last.links[i].target)
           /\ ~last.links[j].exists
           /\ InDaily(last.links[j].target)

\* ------------------------------------------------------------------------
\* Properties of the Backlink Indexer
\* ------------------------------------------------------------------------

\* The store of the end-to-end scenario: notes/project-plan.md with its body,
\* an empty daily/2024-01-01.md, no daily-log.md anywhere.
ScenarioHolds ==
    /\ dirState = ScenarioStore.dirState
    /\ files = ScenarioStore.files
    /\ unreadable = {}

\* "Project Plan"
TitleProjectPlan == <<"P", "r", "o", "j", "e", "c", "t", " ", "P", "l", "a", "n">>

\* "...See [[Daily Log]] for details...."
ContextWithEllipses ==
    <<".", ".", ".", "S", "e", "e", " ", "[", "[", "D", "a", "i", "l", "y", " ", "L",
      "o", "g", "]", "]", " ", "f", "o", "r", " ", "d", "e", "t", "a", "i", "l", "s",
      ".", ".", ".", ".">>

\* C3 as stated: in the scenario get_backlinks("daily-log.md") returns the one
\* record (project-plan.md, "Project Plan", "...See [[Daily Log]] for details....").
C3_ScenarioAsStated ==
    (ScenarioHolds /\ last.op = "get_backlinks" /\ last.arg = NameDailyLog) =>
        /\ last.status = "ok"
        /\ last.backlinks = <<[from_note |-> NameProjectPlan,
                               from_title |-> TitleProjectPlan,
                               context |-> ContextWithEllipses]>>

\* C3, amended: in the scenario get_backlinks("daily-log.md") returns the one
\* record whose from_note is project-plan.md, whose from_title is
\* "Project Plan" and whose context is the whole body of the note,
\* "# Project Plan\nSee [[Daily Log]] for details.", with no ellipsis: the body
\* is shorter than the context radius on both sides of the link.
C3_ScenarioWholeBody ==
    (ScenarioHolds /\ last.op = "get_backlinks" /\ last.arg = NameDailyLog) =>
        /\ last.status = "ok"
        /\ last.backlinks = <<[from_note |-> NameProjectPlan,
                               from_title |-> TitleProjectPlan,
                               context |-> TextProjectPlan]>>

\* The scenario's call has returned its record.
C3_Witness ==
    /\ ScenarioHolds
    /\ last.op = "get_backlinks"
    /\ last.arg = NameDailyLog
    /\ Len(last.backlinks) = 1

\* C4 as stated: the Context Extractor never fails, so a call of
\* get_link_context returns a string and get_backlinks never ends abnormally.
C4_ContextNeverFails ==
    /\ ctx.done => ~ctx.result.panicked
    /\ last.op = "get_backlinks" => last.status # "panic"

\* The directories that hold a file of this name.
SourceDirs(name) == {d \in Dirs : name \in DOMAIN files[d]}

\* A target file name with one ".md" suffix stripped.
StripMd(t) == IF EndsWith(t, MdSuffix) THEN SubSeq(t, 1, Len(t) - Len(MdSuffix)) ELSE t

\* The match of C5: some reference parsed from the text resolves to the
\* target, or equals the target with its ".md" suffix stripped.
ReferencesTarget(content, t) ==
    \E i \in DOMAIN parse_wiki_links(content) :
        LET r == parse_wiki_links(content)[i]
        IN  note_exists(r).target = t \/ r = StripMd(t)

\* The records of the last get_backlinks that come from a file of this name.
RecordsFrom(name) == {i \in DOMAIN last.backlinks : last.backlinks[i].from_note = name}

\* C5 as stated: when get_backlinks(t) returns, a source .md file other than t
\* has a record exactly when one of its references resolves to t or equals t
\* with its .md suffix stripped (a name held by both directories is two
\* source files).
C5_RecordIffReferenceMatches ==
    (last.op = "get_backlinks" /\ last.status = "ok") =>
        \A d \in Dirs : \A n \in DOMAIN files[d] :
            (HasMdExtension(n) /\ n # last.arg) =>
                Cardinality(RecordsFrom(n)) =
                    Cardinality({e \in SourceDirs(n) :
                                    ReferencesTarget(files[e][n], last.arg)})

\* C6: no record returned by get_backlinks(t) has from_note equal to t.
C6_NoSelfBacklink ==
    last.op = "get_backlinks" =>
        \A i \in DOMAIN last.backlinks : last.backlinks[i].from_note # last.arg

\* get_backlinks(t) has returned while a file named t holds a reference that
\* matches t.
C6_Witness ==
    /\ last.op = "get_backlinks"
    /\ last.status = "ok"
    /\ \E d \in SourceDirs(last.arg) :
           \E i \in DOMAIN parse_wiki_links(files[d][last.arg]) :
               LinkMatches(parse_wiki_links(files[d][last.arg])[i], last.arg)

\* The positions of the references of a text that match the target.
MatchingRefs(content, t) ==
    {k \in DOMAIN parse_wiki_links(content) : LinkMatches(parse_wiki_links(content)[k], t)}

\* C7: get_backlinks returns at most one record per source file (a name held
\* by both directories is two source files), and the context of a record is
\* the context of the first reference of its file, left to right, that
\* matches the target.
C7_OneRecordPerSource ==
    last.op = "get_backlinks" =>
        \A i \in DOMAIN last.backlinks :
            LET n == last.backlinks[i].from_note
            IN  /\ Cardinality(RecordsFrom(n)) <= Cardinality(SourceDirs(n))
                /\ \E d \in SourceDirs(n) :
                       LET content == files[d][n]
                           M == MatchingRefs(content, last.arg)
                       IN  /\ M # {}
                           /\ last.backlinks[i].context =
                                  get_link_context(
                                      content,
                                      parse_wiki_links(content)[SetMin(M)]).text

\* A record from a file with two matching references whose contexts differ.
C7_Witness ==
    /\ last.op = "get_backlinks"
    /\ \E i \in DOMAIN last.backlinks :
           \E d \in SourceDirs(last.backlinks[i].from_note) :
               LET content == files[d][last.backlinks[i].from_note]
                   refs == parse_wiki_links(content)
                   M == MatchingRefs(content, last.arg)
               IN  \E k, m \in M :
                       /\ k < m
                       /\ get_link_context(content, refs[k])
                              # get_link_context(content, refs[m])

\* ------------------------------------------------------------------------
\* Properties of the Context Extractor
\* ------------------------------------------------------------------------

Max2(a, b) == IF a >= b THEN a ELSE b

\* Where the link that get_link_context reports starts and ends in the text:
\* the "[[r]]" form when it occurs, else the "[[r|" form, which ends after its
\* closing "]]" (after the "|" when nothing closes it).
MatchStart(content, r) ==
    IF Find(content, PlainPattern(r)) # -1 THEN Find(content, PlainPattern(r))
    ELSE Find(content, PipePattern(r))

MatchEnd(content, r) ==
    IF Find(content, PlainPattern(r)) # -1
    THEN Find(content, PlainPattern(r)) + Len(PlainPattern(r))
    ELSE LET pos == Find(content, PipePattern(r))
             closing == {k \in pos..(Len(content) - 2) :
                            Slice(content, k, k + 2) = <<"]", "]">>}
         IN  IF closing # {} THEN SetMin(closing) + 2 ELSE pos + Len(PipePattern(r))

\* C8 as stated: when a bracket form of the reference occurs in the text,
\* get_link_context returns the text from ContextRadius before the start of
\* the link (or the start of the text) to ContextRadius after its end (or the
\* end of the text), with "..." in front exactly when the excerpt does not
\* start the text and "..." behind exactly when it does not end it; when no
\* bracket form occurs it returns the empty string.
C8_ContextWindow ==
    ctx.done =>
        LET content == ctx.content
            r == ctx.link_text
        IN  /\ ~ctx.result.panicked
            /\ IF MatchStart(content, r) = -1 THEN ctx.result.text = <<>>
               ELSE LET from == Max2(0, MatchStart(content, r) - ContextRadius)
                        to == Min2(Len(content), MatchEnd(content, r) + ContextRadius)
                    IN  ctx.result.text =
                            (IF from > 0 THEN <<".", ".", ".">> ELSE <<>>)
                                \o SubSeq(content, from + 1, to)
                                \o (IF to < Len(content) THEN <<".", ".", ".">> ELSE <<>>)

\* ------------------------------------------------------------------------
\* Properties of create_note_from_link
\* ------------------------------------------------------------------------

ReadsIn(d, order, t) ==
    IF dirState[d] = "missing" THEN <<>>
    ELSE IF dirState[d] = "denied" THEN <<[kind |-> "dir", dir |-> d, name |-> <<>>]>>
    ELSE LET cands == SelectSeq(order[d], LAMBDA n : HasMdExtension(n) /\ n # t)
         IN  [i \in 1..Len(cands) |-> [kind |-> "file", dir |-> d, name |-> cands[i]]]

Reads(order, t) == ReadsIn(Daily, order, t) \o ReadsIn(Standalone, order, t)

ReadFails(read) == read.kind = "dir" \/ <<read.dir, read.name>> \in unreadable

\* The file is read, and extracting the context of its first matching
\* reference ends the call abnormally.
ReadPanics(read, t) ==
    /\ ~ReadFails(read)
    /\ LET content == files[read.dir][read.name]
           M == MatchingRefs(content, t)
       IN  /\ M # {}
           /\ get_link_context(content, parse_wiki_links(content)[SetMin(M)]).panicked

FirstClose(s, from) == SetMin({k \in from..Len(s) : k = Len(s) \/ s[k + 1] = "]"})

\* A link of the grammar starts at offset i: "[[", then a content without ']',
\* then "]]".
LinkAt(s, i) ==
    /\ i + 2 <= Len(s)
    /\ Slice(s, i, i + 2) = <<"[", "[">>
    /\ FirstClose(s, i + 2) + 2 <= Len(s)
    /\ Slice(s, FirstClose(s, i + 2), FirstClose(s, i + 2) + 2) = <<"]", "]">>

\* What lies between the "[[" at offset i and the "]]" that closes it.
LinkContent(s, i) == Slice(s, i + 2, FirstClose(s, i + 2))

HasPipe(c) == \E k \in DOMAIN c : c[k] = "|"

FirstPipe(c) == SetMin({k \in DOMAIN c : c[k] = "|"})

\* The text before the first '|' of a content, the whole content without one.
NamePart(c) == IF HasPipe(c) THEN SubSeq(c, 1, FirstPipe(c) - 1) ELSE c

\* The text after the first '|' of a content, the whole content without one.
TargetPart(c) == IF HasPipe(c) THEN SubSeq(c, FirstPipe(c) + 1, Len(c)) ELSE c

RECURSIVE GrammarTargets(_, _)
\* The targets of the links of the grammar from offset i on, left to right,
\* each link taken whole, an empty target discarded.
GrammarTargets(s, i) ==
    IF i + 2 > Len(s) THEN <<>>
    ELSE IF LinkAt(s, i)
    THEN (IF TargetPart(LinkContent(s, i)) # <<>>
          THEN <<TargetPart(LinkContent(s, i))>> ELSE <<>>)
         \o GrammarTargets(s, FirstClose(s, i + 2) + 2)
    ELSE GrammarTargets(s, i + 1)

\* A link of the grammar with a text before the '|' and a text after it.
NamedLinkAt(s, i) ==
    /\ LinkAt(s, i)
    /\ NamePart(LinkContent(s, i)) # <<>>
    /\ TargetPart(LinkContent(s, i)) # <<>>

RECURSIVE NamedTargets(_, _)
\* The targets of the named links from offset i on, left to right.
NamedTargets(s, i) ==
    IF i + 2 > Len(s) THEN <<>>
    ELSE IF NamedLinkAt(s, i)
    THEN <<TargetPart(LinkContent(s, i))>>
         \o NamedTargets(s, FirstClose(s, i + 2) + 2)
    ELSE NamedTargets(s, i + 1)

\* "[[]]"
TextEmptyLink == <<"[", "[", "]", "]">>

\* "[[|]]"
TextPipeOnly == <<"[", "[", "|", "]", "]">>

\* What the claim says of the texts it names.
ParseExamples ==
    /\ last.arg = TextExample => last.links = <<<<"A">>, <<"c", "-", "d">>>>
    /\ last.arg \in {TextEmptyLink, TextPipeOnly, TextUnterminated} => last.links = <<>>
    /\ \A k \in DOMAIN last.links : last.links[k] # <<>>

\* C11 as stated: parse_wiki_links returns, in order of occurrence and with
\* duplicates, the target of every link of the grammar ("[[", a content
\* without ']', "]]"): the text after the first '|', or the whole content;
\* it never returns an empty target, returns nothing for "[[]]", "[[|]]" and
\* "[[foo", and returns ["A", "c-d"] for "[[A]] and [[B|c-d]]".
C11_TargetPerGrammarLink ==
    last.op = "parse_wiki_links" =>
        /\ last.links = GrammarTargets(last.arg, 0)
        /\ ParseExamples

\* C11 amended: the same, for the links that have a non-empty text before
\* the '|' (a content that starts with '|' is not a link: the scan goes on
\* right after its "[").
C11_TargetPerNamedLink ==
    last.op = "parse_wiki_links" =>
        /\ last.links = NamedTargets(last.arg, 0)
        /\ ParseExamples

\* The parser has returned two targets, the second being the text after the
\* '|' of a link that has a text before it.
C11_Witness ==
    /\ last.op = "parse_wiki_links"
    /\ Len(last.links) = 2
    /\ \E i \in 0..Len(last.arg) :
           LinkAt(last.arg, i) /\ HasPipe(LinkContent(last.arg, i))
               /\ NamePart(LinkContent(last.arg, i)) # <<>>
               /\ TargetPart(LinkContent(last.arg, i)) = last.links[2]

\* ------------------------------------------------------------------------
\* Frame of the scans
\* ------------------------------------------------------------------------

ScanOps == {"scan_note_links", "get_backlinks"}

\* C12: a call of scan_note_links or get_backlinks leaves the directories,
\* the set of note files and their contents as they were; so a call that
\* repeats the call before it (the same text, or the same target under the
\* same directory listing), nothing having happened in between, returns what
\* that call returned.
C12_ScansReadOnly ==
    [][last'.op \in ScanOps =>
          /\ files' = files
          /\ dirState' = dirState
          /\ unreadable' = unreadable
          /\ (last.op = last'.op /\ last.arg = last'.arg /\ last.order = last'.order)
                 => last' = last]_vars

\* A scan_note_links after a change of the store has reported a link that
\* resolves and a link that does not.
C12_Witness ==
    /\ ops > 0
    /\ last.op = "scan_note_links"
    /\ \E i, j \in DOMAIN last.links :
           last.links[i].exists /\ ~last.links[j].exists

\* ------------------------------------------------------------------------
\* Create, then resolve
\* ------------------------------------------------------------------------

====
